---- MODULE Spec2Model ----
(***************************************************************************)
(* The slideshow controller and prefetch scheduler of src/main.rs:         *)
(* ArtSlideshowApp::update (one call per render tick, on the foreground    *)
(* thread) and the worker threads spawned by load_next_in_background.      *)
(*                                                                         *)
(* The foreground thread and the workers share only next_processed, an     *)
(* Arc<Mutex<Option<ProcessedImage>>>.  update() touches it in three       *)
(* separate critical sections (lines 269-272, 277-285, 293-294); a worker  *)
(* in one (lines 211-212).  Each critical section is one atomic step of    *)
(* the model, together with the foreground-private code that sits between  *)
(* it and the previous one, so workers interleave with update() exactly at *)
(* the points where the mutex lets them.                                   *)
(*                                                                         *)
(* An Option<T> is modelled as a set with at most one element: None is {}, *)
(* Some(x) is {x}.  A ProcessedImage is [index, job]: the index of the     *)
(* artwork it was made from and the serial number of the prefetch job that *)
(* made it (0 for the synchronous load in update()).                       *)
(***************************************************************************)
EXTENDS Integers, Sequences, FiniteSets

\* Largest number of artworks in the scanned folder.
MaxN == 3
\* The clock stops advancing at MaxTime (seconds since construction).
MaxTime == 21
\* No more than MaxJobs worker threads are spawned in one run.
MaxJobs == 4
\* self.slide_duration, in seconds.
slide_duration == 10

VARIABLES
    artworks,           \* Seq(BOOLEAN): for each ArtworkInfo, whether image::open succeeds
    current_index,      \* self.current_index
    current_processed,  \* self.current_processed : Option<ProcessedImage>
    next_processed,     \* self.next_processed : the shared handoff slot
    last_change,        \* self.last_change : Instant
    loading_next,       \* self.loading_next
    now,                \* Instant::now(), seconds since construction
    pc,                 \* where the foreground thread is inside update()
    workers,            \* the spawned threads that have not finished: [job, index]
    dispatched,         \* history: the target index of every job spawned, in order
    writes,             \* history: writes to the slot since the last dispatch
    tick,               \* history: number of update() calls begun (saturates at 2)
    held,               \* history: a tick found the timer elapsed and the slot empty
                        \*          since last_change was last set
    ev,                 \* history: what the last step did
    observed,           \* history: the jobs whose result update() has seen in the slot
    lock,               \* the Mutex of next_processed: who holds it
    loader,             \* the metadata loader of new(): its input and its result
    scaler,             \* the main-image resize of process_image: sizes in and out
    backdrop            \* the backdrop of process_image: the pixel buffer being blurred

\* The state of the slideshow controller and the prefetch scheduler.
ctl == <<artworks, current_index, current_processed, next_processed, last_change,
         loading_next, now, pc, workers, dispatched, writes, tick, held, ev, observed>>

\* The state of the parts of the program that are modelled on their own below.
parts == <<lock, loader, scaler, backdrop>>

vars == <<ctl, parts>>

N == Len(artworks)

None == {}
Some(x) == {x}

\* The ProcessedImage made from artworks[i] by job j.
Processed(i, j) == [index |-> i, job |-> j]

\* process_image: Some(ProcessedImage) when image::open(path) succeeds, else None.
process_image(i, j) == IF artworks[i + 1] THEN Some(Processed(i, j)) ELSE None

\* The lists new() can build from a folder: 0..MaxN images, each decodable or not.
ArtworkLists == UNION {[1..n -> BOOLEAN] : n \in 0..MaxN}

\* Nothing of the separately modelled parts is running.
PartsIdle ==
    /\ lock = "free"
    /\ loader = "off"
    /\ scaler = "off"
    /\ backdrop = "off"

\* ArtSlideshowApp::new
Init ==
    /\ PartsIdle
    /\ observed = {}
    /\ artworks \in ArtworkLists
    /\ current_index = 0
    /\ current_processed = None
    /\ next_processed = None
    /\ last_change = 0
    /\ loading_next = FALSE
    /\ now = 0
    /\ pc = "idle"
    /\ workers = {}
    /\ dispatched = <<>>
    /\ writes = 0
    /\ tick = 0
    /\ held = FALSE
    /\ ev = "new"

\* Line 199 without the test of the loading flag.
SpawnsIgnoringFlag(loading) == ~(N <= 1)

\* Line 199 without the test of the length of the list.
SpawnsAnyLength(loading) == ~loading

\* The guard of load_next_in_background (line 199), negated: a worker is spawned.
Spawns(loading) == ~(loading \/ N <= 1)

\* Line 203 prefetching the current artwork instead of the next.
next_index_current == current_index % N

\* let next_index = (self.current_index + 1) % self.artworks.len()
next_index == (current_index + 1) % N

\* load_next_in_background without line 207 (self.loading_next = true).
load_next_flag_not_set(loading) ==
    IF ~(loading \/ N <= 1)
    THEN /\ Len(dispatched) < MaxJobs
         /\ loading_next' = loading
         /\ dispatched' = Append(dispatched, (current_index + 1) % N)
         /\ workers' = workers \cup {[job |-> Len(dispatched) + 1,
                                     index |-> (current_index + 1) % N]}
         /\ writes' = 0
    ELSE /\ loading_next' = loading
         /\ UNCHANGED <<dispatched, workers, writes>>

\* load_next_in_background, called when self.loading_next has the value `loading`.
load_next_in_background(loading) ==
    IF Spawns(loading)
    THEN /\ Len(dispatched) < MaxJobs
         /\ loading_next' = TRUE
         /\ dispatched' = Append(dispatched, next_index)
         /\ workers' = workers \cup {[job |-> Len(dispatched) + 1, index |-> next_index]}
         /\ writes' = 0
    ELSE /\ loading_next' = loading
         /\ UNCHANGED <<dispatched, workers, writes>>

\* One more call of update() (history only).
Bump == IF tick < 2 THEN tick + 1 ELSE tick

\* Line 276 with the comparison turned round.
ElapsedReversed == now - last_change <= slide_duration

\* last_change.elapsed() >= slide_duration
Elapsed == now - last_change >= slide_duration

\* update(), lines 245-252: no artworks, show the placeholder and return.
UpdateEmpty ==
    /\ pc = "idle"
    /\ N = 0
    /\ tick' = Bump
    /\ ev' = "empty"
    /\ UNCHANGED <<artworks, current_index, current_processed, next_processed,
                   last_change, loading_next, now, pc, workers, dispatched, writes, held, observed, parts>>

\* update(), lines 254-265: nothing processed yet, load the current image on
\* this thread and start the prefetch.
UpdateLoadFirst ==
    /\ pc = "idle"
    /\ N > 0
    /\ current_processed = None
    /\ current_processed' = process_image(current_index, 0)
    /\ load_next_in_background(loading_next)
    /\ pc' = "poll"
    /\ tick' = Bump
    /\ ev' = "load_first"
    /\ UNCHANGED <<artworks, current_index, next_processed, last_change, now, held, observed, parts>>

\* update(), line 255 when current_processed is Some: the block is skipped.
UpdateSkipFirst ==
    /\ pc = "idle"
    /\ N > 0
    /\ current_processed # None
    /\ pc' = "poll"
    /\ tick' = Bump
    /\ ev' = "displaying"
    /\ UNCHANGED <<artworks, current_index, current_processed, next_processed,
                   last_change, loading_next, now, workers, dispatched, writes, held, observed, parts>>

\* update(), lines 267-273: the poll of the handoff slot.
UpdatePoll ==
    /\ pc = "poll"
    /\ loading_next' = IF loading_next /\ next_processed # None THEN FALSE ELSE loading_next
    /\ observed' = IF loading_next THEN observed \cup {p.job : p \in next_processed}
                                   ELSE observed
    /\ pc' = "check"
    /\ ev' = "poll"
    /\ UNCHANGED <<artworks, current_index, current_processed, next_processed,
                   last_change, now, workers, dispatched, writes, tick, held, parts>>

\* Lines 276-279 without the test of the slot (line 279).
CanAdvanceOnTimerAlone == Elapsed

\* update(), lines 276-279: the timer has run out and the slot holds a result.
CanAdvance == Elapsed /\ next_processed # None

\* update(), lines 275-289: the timer check and, with a filled slot, the advance.
UpdateCheck ==
    /\ pc = "check"
    /\ observed' = IF Elapsed THEN observed \cup {p.job : p \in next_processed}
                              ELSE observed
    /\ IF CanAdvance
       THEN /\ current_index' = (current_index + 1) % N
            /\ last_change' = now
            /\ current_processed' = next_processed
            /\ pc' = "clear"
            /\ held' = FALSE
            /\ ev' = IF held THEN "advance_late" ELSE "advance"
       ELSE /\ pc' = "idle"
            /\ held' = (held \/ Elapsed)
            /\ ev' = IF Elapsed THEN "hold" ELSE "wait"
            /\ UNCHANGED <<current_index, last_change, current_processed>>
    /\ UNCHANGED <<artworks, next_processed, loading_next, now, workers, dispatched,
                   writes, tick, parts>>

\* update(), lines 291-299: empty the slot and start the next prefetch.
UpdateClear ==
    /\ pc = "clear"
    /\ next_processed' = None
    /\ load_next_in_background(FALSE)
    /\ pc' = "idle"
    /\ ev' = "clear"
    /\ UNCHANGED <<artworks, current_index, current_processed, last_change, now, tick, held, observed, parts>>

\* The spawned closure, lines 209-214, when process_image returns Some.
WorkerStore ==
    \E w \in workers :
        /\ process_image(w.index, w.job) # None
        /\ next_processed' = process_image(w.index, w.job)
        /\ workers' = workers \ {w}
        /\ writes' = writes + 1
        /\ ev' = "store"
        /\ UNCHANGED <<artworks, current_index, current_processed, last_change,
                       loading_next, now, pc, dispatched, tick, held, observed, parts>>

\* The spawned closure, lines 209-214, when process_image returns None.
WorkerNone ==
    \E w \in workers :
        /\ process_image(w.index, w.job) = None
        /\ workers' = workers \ {w}
        /\ ev' = "none"
        /\ UNCHANGED <<artworks, current_index, current_processed, next_processed,
                       last_change, loading_next, now, pc, dispatched, writes, tick, held, observed, parts>>

\* The clock.
Advance ==
    /\ now < MaxTime
    /\ now' = now + 1
    /\ ev' = "time"
    /\ UNCHANGED <<artworks, current_index, current_processed, next_processed,
                   last_change, loading_next, pc, workers, dispatched, writes, tick, held, observed, parts>>

Next ==
    \/ UpdateEmpty
    \/ UpdateLoadFirst
    \/ UpdateSkipFirst
    \/ UpdatePoll
    \/ UpdateCheck
    \/ UpdateClear
    \/ WorkerStore
    \/ WorkerNone
    \/ Advance

Spec == Init /\ [][Next]_vars

(***************************************************************************)
(* The metadata loader: the body of the folder scan of new(), lines 52-81,  *)
(* for one directory entry.  A file name is a sequence of tokens, "." or a *)
(* run of characters without a dot; a string is written the same way.      *)
(* The sidecar is what the file system holds at path.with_extension("json")*)
(* : nothing, something that cannot be read as text, text that is no JSON   *)
(* object, or a JSON object, given as a function from its keys to values.   *)
(***************************************************************************)

\* Longest file name, in tokens.
MaxNameLen == 3

NameTokens == {".", "iris", "jpg", "PNG", "txt"}
FileNames == UNION {[1..n -> NameTokens] : n \in 1..MaxNameLen}

\* JSON values: the strings "Irises" and "1889", and the number 1889.
JsonValues == {[type |-> "string", text |-> <<"Irises">>],
               [type |-> "string", text |-> <<"1889">>],
               [type |-> "number", text |-> <<"1889">>]}
JsonKeys == {"title", "artist", "year", "note"}
JsonObjects == UNION {[ks -> JsonValues] : ks \in SUBSET JsonKeys}
Sidecars ==
    {[kind |-> "missing"], [kind |-> "unreadable"], [kind |-> "garbage"]}
        \cup {[kind |-> "object", fields |-> o] : o \in JsonObjects}

\* The controller of a program that is not running: new() on an empty folder.
ControllerIdle ==
    /\ artworks = <<>>
    /\ current_index = 0
    /\ current_processed = None
    /\ next_processed = None
    /\ last_change = 0
    /\ loading_next = FALSE
    /\ now = 0
    /\ pc = "idle"
    /\ workers = {}
    /\ dispatched = <<>>
    /\ writes = 0
    /\ tick = 0
    /\ held = FALSE
    /\ ev = "new"
    /\ observed = {}

\* The position of the last "." of a name, 0 when there is none.
RECURSIVE LastDot(_, _)
LastDot(name, i) ==
    IF i = 0 THEN 0
    ELSE IF name[i] = "." THEN i ELSE LastDot(name, i - 1)

\* Path::extension and Path::file_stem: a name is split at its last ".",
\* unless that is its first character (or there is none).
HasExtension(name) == LastDot(name, Len(name)) > 1
extension(name) == SubSeq(name, LastDot(name, Len(name)) + 1, Len(name))
file_stem(name) ==
    IF HasExtension(name) THEN SubSeq(name, 1, LastDot(name, Len(name)) - 1) ELSE name

\* str::to_lowercase on the tokens of the model.
to_lowercase(str) == [i \in 1..Len(str) |-> IF str[i] = "PNG" THEN "png" ELSE str[i]]

\* Lines 54-56: the entry is an image file.
IsImage(name) ==
    /\ HasExtension(name)
    /\ to_lowercase(extension(name)) \in {<<"jpg">>, <<"jpeg">>, <<"png">>, <<"bmp">>, <<"gif">>}

\* serde_json::from_str::<ArtworkMetadata>: the three fields, each a string;
\* other keys are ignored.
from_str(side) ==
    IF /\ side.kind = "object"
       /\ {"title", "artist", "year"} \subseteq DOMAIN side.fields
       /\ \A k \in {"title", "artist", "year"} : side.fields[k].type = "string"
    THEN Some([title |-> side.fields["title"].text, artist |-> side.fields["artist"].text,
               year |-> side.fields["year"].text])
    ELSE None

\* Lines 59-77 with the fallback of lines 69-76 in both failing cases.
load_metadata_one_fallback(name, side) ==
    IF side.kind # "missing" /\ from_str(side) # None
    THEN CHOOSE m \in from_str(side) : TRUE
    ELSE [title |-> file_stem(name), artist |-> <<"Unknown">>, year |-> <<"Unknown">>]

\* Lines 59-77: the metadata of one image.
load_metadata(name, side) ==
    IF side.kind # "missing"
    THEN IF side.kind # "unreadable" /\ from_str(side) # None
         THEN CHOOSE m \in from_str(side) : TRUE
         ELSE [title |-> <<"Unknown">>, artist |-> <<"Unknown">>, year |-> <<"Unknown">>]
    ELSE [title |-> file_stem(name), artist |-> <<"Unknown">>, year |-> <<"Unknown">>]

InitMeta ==
    /\ ControllerIdle
    /\ lock = "free" /\ scaler = "off" /\ backdrop = "off"
    /\ \E name \in FileNames, side \in Sidecars :
          loader = [stage |-> "entry", name |-> name, sidecar |-> side,
                    metadata |-> "none"]

\* Lines 57-79: an image file gets its metadata and is pushed onto artworks.
PushArtwork ==
    /\ loader.stage = "entry"
    /\ IsImage(loader.name)
    /\ loader' = [loader EXCEPT !.stage = "pushed",
                                !.metadata = load_metadata(loader.name, loader.sidecar)]
    /\ UNCHANGED <<ctl, lock, scaler, backdrop>>

\* Lines 54-56 failing: the entry is skipped.
SkipEntry ==
    /\ loader.stage = "entry"
    /\ ~IsImage(loader.name)
    /\ loader' = [loader EXCEPT !.stage = "skipped"]
    /\ UNCHANGED <<ctl, lock, scaler, backdrop>>

NextMeta == PushArtwork \/ SkipEntry

SpecMeta == InitMeta /\ [][NextMeta]_vars

(***************************************************************************)
(* The main-image scaling of process_image, lines 99-109.  The code works  *)
(* in f32: both casts "as f32", the division and the two products round to *)
(* nearest, ties to even, and "as u32" truncates.  A positive f32 is       *)
(* modelled exactly as [m, e], standing for m * 2^e, with a 24-bit         *)
(* mantissa 2^23 <= m < 2^24.  Products of mantissas are formed in 12-bit  *)
(* limbs and quotients by long division, so that no intermediate value     *)
(* leaves 32-bit integers.  Source dimensions are sampled up to just above  *)
(* 2^30.                                                                   *)
(***************************************************************************)

\* Small source dimensions 1..MaxSmall.
MaxSmall == 6
\* Source dimensions within MaxDelta of each anchor below.
MaxDelta == 6

max_dimension == 2048

DimAnchors == {2048, 3000, 4096, 6144, 16777216, 1073741824}
Dims == (1..MaxSmall)
        \cup {a + d : a \in DimAnchors, d \in (0 - MaxDelta)..MaxDelta}

RECURSIVE BitLen(_)
BitLen(n) == IF n = 0 THEN 0 ELSE 1 + BitLen(n \div 2)

\* Round to nearest, ties to even: q is the truncated value, r the remainder
\* that was cut off and d the weight of one unit of q.
RoundEven(q, r, d) ==
    IF 2 * r > d \/ (2 * r = d /\ q % 2 = 1) THEN q + 1 ELSE q

\* A rounded mantissa that reached 2^24 is renormalised.
Normal(m, e) ==
    IF m = 16777216 THEN [m |-> 8388608, e |-> e + 1] ELSE [m |-> m, e |-> e]

\* n as f32, for an integer 1 <= n < 2^31.
as_f32(n) ==
    LET b == BitLen(n)
    IN  IF b <= 24
        THEN [m |-> n * 2^(24 - b), e |-> b - 24]
        ELSE LET s == b - 24
             IN  Normal(RoundEven(n \div 2^s, n % 2^s, 2^s), s)

\* k further quotient bits of r / d, after the quotient bits q: <<q, r>>.
RECURSIVE LongDiv(_, _, _, _)
LongDiv(r, d, k, q) ==
    IF k = 0 THEN <<q, r>>
    ELSE IF 2 * r >= d THEN LongDiv(2 * r - d, d, k - 1, 2 * q + 1)
                       ELSE LongDiv(2 * r, d, k - 1, 2 * q)

\* a / b in f32.
f32_div(a, b) ==
    IF a.m >= b.m
    THEN LET qr == LongDiv(a.m - b.m, b.m, 23, 1)
         IN  Normal(RoundEven(qr[1], qr[2], b.m), a.e - b.e - 23)
    ELSE LET qr == LongDiv(a.m, b.m, 24, 0)
         IN  Normal(RoundEven(qr[1], qr[2], b.m), a.e - b.e - 24)

\* a * b in f32.
f32_mul(a, b) ==
    LET a1 == a.m \div 4096
        a0 == a.m % 4096
        b1 == b.m \div 4096
        b0 == b.m % 4096
        mid == a1 * b0 + a0 * b1
        low == a0 * b0 + (mid % 4096) * 4096
        lo == low % 16777216
        hi == a1 * b1 + (mid \div 4096) + (low \div 16777216)
    IN  IF hi >= 8388608
        THEN Normal(RoundEven(hi, lo, 16777216), a.e + b.e + 24)
        ELSE Normal(RoundEven(2 * hi + (lo \div 8388608), lo % 8388608, 8388608),
                    a.e + b.e + 23)

\* f as u32: truncation toward zero.
as_u32(f) ==
    IF f.e >= 0 THEN f.m * 2^(f.e)
    ELSE IF f.e <= 0 - 24 THEN 0
    ELSE f.m \div 2^(0 - f.e)

one_f32 == [m |-> 8388608, e |-> 0 - 23]

Max(a, b) == IF a >= b THEN a ELSE b

\* The scale factor with the test of line 101 left out.
scale_always_one(img_width, img_height) == one_f32

\* Lines 101-105.
scale(img_width, img_height) ==
    IF Max(img_width, img_height) > max_dimension
    THEN f32_div(as_f32(max_dimension), as_f32(Max(img_width, img_height)))
    ELSE one_f32

\* Lines 107-108.
new_width(img_width, img_height) ==
    as_u32(f32_mul(as_f32(img_width), scale(img_width, img_height)))
new_height(img_width, img_height) ==
    as_u32(f32_mul(as_f32(img_height), scale(img_width, img_height)))

\* An opened source image of any of the sampled dimensions (line 99).
InitScale ==
    /\ ControllerIdle
    /\ lock = "free" /\ loader = "off" /\ backdrop = "off"
    /\ \E w \in Dims, h \in Dims :
          scaler = [stage |-> "opened", img_width |-> w, img_height |-> h,
                    main_width |-> 0, main_height |-> 0]

\* Lines 107-109: resize_exact gives main_image exactly the computed dimensions.
ResizeMain ==
    /\ scaler.stage = "opened"
    /\ scaler' = [scaler EXCEPT
                    !.stage = "resized",
                    !.main_width = new_width(scaler.img_width, scaler.img_height),
                    !.main_height = new_height(scaler.img_width, scaler.img_height)]
    /\ UNCHANGED <<ctl, lock, loader, backdrop>>

NextScale == ResizeMain

SpecScale == InitScale /\ [][NextScale]_vars

(***************************************************************************)
(* The backdrop: fast_box_blur (lines 141-196) and the darken loop of      *)
(* process_image (lines 123-128), on an RGBA8 buffer.  A pixel is          *)
(* <<r, g, b, a>>; a buffer is the row-major sequence of its pixels, as in *)
(* ImageBuffer: pixel (x, y) is element y * width + x (counted from 1      *)
(* here).                                                                  *)
(*                                                                         *)
(* The accumulators r, g, b of the blur are u32.  A u32 sum is kept here   *)
(* as [hi, lo] with lo < 2^16, standing for hi * 2^16 + lo; the exact sum  *)
(* has overflowed 32 bits when hi >= 2^16.  An overflowing += panics in a  *)
(* build with overflow checks and wraps in a build without them.           *)
(*                                                                         *)
(* The loop over dx in -radius..=radius (lines 152-159, 178-185) adds, for *)
(* every clamped position j of the line, the sample at j as often as some  *)
(* dx lands on j.  The sum is formed in that order here, position by       *)
(* position, which gives the same total and lets the radius be large.      *)
(***************************************************************************)

\* Image sides 1..MaxSide.
MaxSide == 2
\* Blur radii 0..MaxRadius, next to the radius the program uses.
MaxRadius == 2

blur_passes == 3
blur_radius == 10

\* The largest radius for which a line of 255s still sums to less than 2^32,
\* and the one after it.
LargeRadii == {8421504, 8421505}
Radii == (0..MaxRadius) \cup {blur_radius} \cup LargeRadii

get_pixel(px, width, x, y) == px[y * width + x + 1]

\* A buffer whose pixel number i (row by row) has the channels of base moved
\* by step * i; step 0 gives a buffer of one colour.
Buffer(width, height, c, step) ==
    [n \in 1..(width * height) |->
        LET i == n - 1
        IN  << (c + step * i) % 256,
               (c + 85 + step * i) % 256,
               (c + 170 + step * i) % 256,
               (255 - c + 2 * step * i) % 256 >>]

wide_zero == [hi |-> 0, lo |-> 0]

wide_add(a, b) ==
    [hi |-> a.hi + b.hi + ((a.lo + b.lo) \div 65536), lo |-> (a.lo + b.lo) % 65536]

\* value added times over, for value < 2^8 and times < 2^26.
wide_times(value, times) ==
    LET p0 == value * (times % 65536)
    IN  [hi |-> value * (times \div 65536) + (p0 \div 65536), lo |-> p0 % 65536]

Overflows(a) == a.hi >= 65536

wrapping(a) == [hi |-> a.hi % 65536, lo |-> a.lo]

\* Quotient bits i..0 of the u32 a divided by d, after the remainder rem and
\* the quotient bits q of the bits above i.
RECURSIVE U32DivBits(_, _, _, _, _)
U32DivBits(a, d, i, rem, q) ==
    IF i < 0 THEN q
    ELSE LET bit == IF i >= 16 THEN (a.hi \div 2^(i - 16)) % 2 ELSE (a.lo \div 2^i) % 2
             r2 == 2 * rem + bit
         IN  IF r2 >= d THEN U32DivBits(a, d, i - 1, r2 - d, 2 * q + 1)
                        ELSE U32DivBits(a, d, i - 1, r2, 2 * q)

\* a / d on u32, for a < 2^32.
u32_div(a, d) ==
    IF a.hi < 32768 THEN (a.hi * 65536 + a.lo) \div d
    ELSE U32DivBits(a, d, 31, 0, 0)

clamp(v, lo, hi) == IF v < lo THEN lo ELSE IF v > hi THEN hi ELSE v

\* How many dx in -radius..=radius have (pos + dx).clamp(0, len - 1) = j, if
\* positions outside the line were dropped instead of clamped.
window_count_no_clamp(j, pos, len, radius) ==
    IF j - pos <= radius /\ pos - j <= radius THEN 1 ELSE 0

\* How many dx in -radius..=radius have (pos + dx).clamp(0, len - 1) = j
\* (lines 153, 179).
window_count(j, pos, len, radius) ==
    IF len = 1 THEN 2 * radius + 1
    ELSE IF j = 0 THEN clamp(radius - pos + 1, 0, 2 * radius + 1)
    ELSE IF j = len - 1 THEN clamp(radius - (len - 1 - pos) + 1, 0, 2 * radius + 1)
    ELSE IF j - pos <= radius /\ pos - j <= radius THEN 1 ELSE 0

\* The accumulator after the loop over dx, for the samples line[j..len-1].
RECURSIVE window_sum(_, _, _, _, _)
window_sum(line, j, pos, len, radius) ==
    IF j = len THEN wide_zero
    ELSE wide_add(wide_times(line[j], window_count(j, pos, len, radius)),
                  window_sum(line, j + 1, pos, len, radius))

\* Lines 162-165, 188-191: (sum / count) as u8, count being 2 * radius + 1.
mean_u8(sum, radius) == u32_div(wrapping(sum), 2 * radius + 1) % 256

row_sum(px, width, x, y, k, radius) ==
    window_sum([j \in 0..(width - 1) |-> get_pixel(px, width, j, y)[k]],
               0, x, width, radius)

column_sum(px, width, height, x, y, k, radius) ==
    window_sum([j \in 0..(height - 1) |-> get_pixel(px, width, x, j)[k]],
               0, y, height, radius)

\* Lines 145-167.  SubSeq yields the whole buffer at once, like output.
horizontal_pass(px, width, height, radius) ==
    SubSeq([n \in 1..(width * height) |->
               LET x == (n - 1) % width
                   y == (n - 1) \div width
               IN  << mean_u8(row_sum(px, width, x, y, 1, radius), radius),
                      mean_u8(row_sum(px, width, x, y, 2, radius), radius),
                      mean_u8(row_sum(px, width, x, y, 3, radius), radius),
                      px[n][4] >>],
           1, width * height)

\* Lines 171-193.
vertical_pass(temp, width, height, radius) ==
    SubSeq([n \in 1..(width * height) |->
               LET x == (n - 1) % width
                   y == (n - 1) \div width
               IN  << mean_u8(column_sum(temp, width, height, x, y, 1, radius), radius),
                      mean_u8(column_sum(temp, width, height, x, y, 2, radius), radius),
                      mean_u8(column_sum(temp, width, height, x, y, 3, radius), radius),
                      temp[n][4] >>],
           1, width * height)

fast_box_blur(px, width, height, radius) ==
    LET temp == horizontal_pass(px, width, height, radius)
    IN  vertical_pass(temp, width, height, radius)

\* Some accumulator of the call exceeds u32; none can unless a line of 255s
\* does.
blur_overflows(px, width, height, radius) ==
    /\ Overflows(wide_times(255, 2 * radius + 1))
    /\ LET temp == horizontal_pass(px, width, height, radius)
       IN  \E x \in 0..(width - 1), y \in 0..(height - 1), k \in 1..3 :
              \/ Overflows(row_sum(px, width, x, y, k, radius))
              \/ Overflows(column_sum(temp, width, height, x, y, k, radius))

\* 0.6 as an f32 literal, 0x3F19999A.
darken_factor == [m |-> 10066330, e |-> 0 - 24]

\* A darken that rounds to nearest instead of truncating.
darken_channel_rounding(c) == (6 * c + 5) \div 10

\* Lines 125-127: (c as f32 * 0.6) as u8; 0 as f32 is 0.0, and 0.0 * 0.6 is 0.0.
darken_channel(c) ==
    IF c = 0 THEN 0 ELSE as_u32(f32_mul(as_f32(c), darken_factor))

darken(px) ==
    [n \in 1..Len(px) |->
        << darken_channel(px[n][1]), darken_channel(px[n][2]),
           darken_channel(px[n][3]), px[n][4] >>]

\* Line 116: the RGBA8 buffer the blur starts from, and the radius it is
\* called with.
InitBlur ==
    /\ ControllerIdle
    /\ lock = "free" /\ loader = "off" /\ scaler = "off"
    /\ \E width \in 1..MaxSide, height \in 1..MaxSide, radius \in Radii,
          c \in 0..255, step \in {0, 37} :
          \* every colour on a single pixel, every fifteenth on larger buffers
          /\ (width = 1 /\ height = 1 /\ step = 0) \/ c % 15 = 0
          /\ backdrop = [stage |-> "rgba", width |-> width, height |-> height,
                      radius |-> radius, passes |-> 0,
                      source |-> Buffer(width, height, c, step),
                      px |-> Buffer(width, height, c, step),
                      blurred |-> Buffer(width, height, c, step)]

\* Line 120, one iteration of the loop of line 119; a build without overflow
\* checks when an accumulator overflows.
BlurPass ==
    /\ backdrop.stage = "rgba"
    /\ backdrop.passes < blur_passes
    /\ LET output == fast_box_blur(backdrop.px, backdrop.width,
                                   backdrop.height, backdrop.radius)
       IN  backdrop' = [backdrop EXCEPT !.passes = @ + 1, !.px = output,
                                        !.blurred = output]
    /\ UNCHANGED <<ctl, lock, loader, scaler>>

\* Line 120 in a build with overflow checks, when an accumulator overflows:
\* the thread panics and no buffer is returned.
BlurPanic ==
    /\ backdrop.stage = "rgba"
    /\ backdrop.passes < blur_passes
    /\ blur_overflows(backdrop.px, backdrop.width, backdrop.height, backdrop.radius)
    /\ backdrop' = [backdrop EXCEPT !.stage = "panic"]
    /\ UNCHANGED <<ctl, lock, loader, scaler>>

\* Lines 123-128, after the last pass.
Darken ==
    /\ backdrop.stage = "rgba"
    /\ backdrop.passes = blur_passes
    /\ backdrop' = [backdrop EXCEPT
                      !.stage = "darkened",
                      !.px = darken(backdrop.px)]
    /\ UNCHANGED <<ctl, lock, loader, scaler>>

NextBlur == BlurPass \/ BlurPanic \/ Darken

SpecBlur == InitBlur /\ [][NextBlur]_vars

(***************************************************************************)
(* The mutex of next_processed.  update() and the spawned closure are      *)
(* taken apart here at every lock(), at every release of a guard and at    *)
(* every piece of long-running work (process_image, create_textures, the   *)
(* rendering), so that the state says who holds the mutex while that work  *)
(* runs.  lock.owner is the holder, lock.ready the jobs whose              *)
(* process_image has returned Some and that have not stored their result   *)
(* yet.  A lock() on a held mutex blocks: its step is not enabled.         *)
(***************************************************************************)

LockFree == lock.owner = "none"

\* self.next_processed.lock().unwrap() on the foreground thread.
lock_by_update == [lock EXCEPT !.owner = "update", !.job = 0]

\* The guard goes out of scope or is dropped.
unlock == [lock EXCEPT !.owner = "none", !.job = 0]

\* Line 285 left out: the guard next_lock lives on.
keep_next_lock == lock

\* Line 285: drop(next_lock).
drop_next_lock == unlock

\* The history variables of the controller model, which stand still here.
history == <<tick, held, ev, observed>>

\* Everything of the controller that a lock() leaves alone.
ctl_data == <<artworks, current_index, current_processed, next_processed, last_change,
              loading_next, now, workers, dispatched, writes>>

\* ArtSlideshowApp::new, with the mutex free.
InitLock ==
    /\ lock = [owner |-> "none", job |-> 0, ready |-> {}]
    /\ loader = "off" /\ scaler = "off" /\ backdrop = "off"
    /\ observed = {}
    /\ artworks \in ArtworkLists
    /\ current_index = 0
    /\ current_processed = None
    /\ next_processed = None
    /\ last_change = 0
    /\ loading_next = FALSE
    /\ now = 0
    /\ pc = "idle"
    /\ workers = {}
    /\ dispatched = <<>>
    /\ writes = 0
    /\ tick = 0
    /\ held = FALSE
    /\ ev = "new"

\* update() is called: lines 245 and 255 choose where it goes first.
LockEnter ==
    /\ pc = "idle"
    /\ pc' = IF N = 0 THEN "render"
             ELSE IF current_processed = None THEN "process_image"
             ELSE "poll"
    /\ UNCHANGED <<artworks, current_index, current_processed, next_processed,
                   last_change, loading_next, now, workers, dispatched, writes,
                   history, parts>>

\* Lines 256-257: the synchronous process_image has run; with None, lines
\* 259-264 go straight to load_next_in_background.
LockLoadFirst ==
    /\ pc = "process_image"
    /\ current_processed' = process_image(current_index, 0)
    /\ IF process_image(current_index, 0) # None
       THEN /\ pc' = "create_textures_first"
            /\ UNCHANGED <<loading_next, dispatched, workers, writes>>
       ELSE /\ pc' = "poll"
            /\ load_next_in_background(loading_next)
    /\ UNCHANGED <<artworks, current_index, next_processed, last_change, now,
                   history, parts>>

\* Lines 259-264: create_textures has run; load_next_in_background.
LockTexturesFirst ==
    /\ pc = "create_textures_first"
    /\ load_next_in_background(loading_next)
    /\ pc' = "poll"
    /\ UNCHANGED <<artworks, current_index, current_processed, next_processed,
                   last_change, now, history, parts>>

\* Lines 268-269: with the flag set, lock the slot.
LockPoll ==
    /\ pc = "poll"
    /\ IF loading_next
       THEN /\ LockFree
            /\ lock' = lock_by_update
            /\ pc' = "poll_locked"
       ELSE /\ pc' = "timer"
            /\ UNCHANGED lock
    /\ UNCHANGED <<ctl_data, history, loader, scaler, backdrop>>

\* Lines 270-273: read the slot; the guard ends with the block.
LockPollRead ==
    /\ pc = "poll_locked"
    /\ loading_next' = IF next_processed # None THEN FALSE ELSE loading_next
    /\ lock' = unlock
    /\ pc' = "timer"
    /\ UNCHANGED <<artworks, current_index, current_processed, next_processed,
                   last_change, now, workers, dispatched, writes, history,
                   loader, scaler, backdrop>>

\* Lines 276-277: with the timer run out, lock the slot.
LockTimer ==
    /\ pc = "timer"
    /\ IF Elapsed
       THEN /\ LockFree
            /\ lock' = lock_by_update
            /\ pc' = "check_locked"
       ELSE /\ pc' = "render"
            /\ UNCHANGED lock
    /\ UNCHANGED <<ctl_data, history, loader, scaler, backdrop>>

\* Lines 279-285, or line 300 where the guard ends when the slot is empty.
LockCheck ==
    /\ pc = "check_locked"
    /\ IF next_processed # None
       THEN /\ current_index' = (current_index + 1) % N
            /\ last_change' = now
            /\ current_processed' = next_processed
            /\ lock' = drop_next_lock
            /\ pc' = "create_textures"
       ELSE /\ lock' = unlock
            /\ pc' = "render"
            /\ UNCHANGED <<current_index, last_change, current_processed>>
    /\ UNCHANGED <<artworks, next_processed, loading_next, now, workers,
                   dispatched, writes, history, loader, scaler, backdrop>>

\* Lines 287-293: create_textures has run; lock the slot again.
LockTextures ==
    /\ pc = "create_textures"
    /\ LockFree
    /\ lock' = lock_by_update
    /\ pc' = "clear_locked"
    /\ UNCHANGED <<ctl_data, history, loader, scaler, backdrop>>

\* Lines 294-298: empty the slot, release, reset the flag and prefetch.
LockClear ==
    /\ pc = "clear_locked"
    /\ next_processed' = None
    /\ lock' = unlock
    /\ load_next_in_background(FALSE)
    /\ pc' = "render"
    /\ UNCHANGED <<artworks, current_index, current_processed, last_change, now,
                   history, loader, scaler, backdrop>>

\* Lines 302-386: the frame has been drawn; update() returns.
LockRender ==
    /\ pc = "render"
    /\ pc' = "idle"
    /\ UNCHANGED <<artworks, current_index, current_processed, next_processed,
                   last_change, loading_next, now, workers, dispatched, writes,
                   history, parts>>

\* Line 210: process_image of a worker has returned Some.
WorkerProcessed ==
    \E w \in workers :
        /\ w.job \notin lock.ready
        /\ process_image(w.index, w.job) # None
        /\ lock' = [lock EXCEPT !.ready = @ \cup {w.job}]
        /\ UNCHANGED <<ctl, loader, scaler, backdrop>>

\* Line 210: process_image of a worker has returned None; the thread ends.
WorkerFailed ==
    \E w \in workers :
        /\ process_image(w.index, w.job) = None
        /\ workers' = workers \ {w}
        /\ UNCHANGED <<artworks, current_index, current_processed, next_processed,
                       last_change, loading_next, now, pc, dispatched, writes,
                       history, parts>>

\* Line 211 comes after line 210: only a worker with its result locks.
worker_may_lock(w) == w.job \in lock.ready

\* Line 211: next_processed.lock().unwrap() in the worker.
WorkerLock ==
    \E w \in workers :
        /\ worker_may_lock(w)
        /\ LockFree
        /\ lock' = [lock EXCEPT !.owner = "worker", !.job = w.job]
        /\ UNCHANGED <<ctl, loader, scaler, backdrop>>

\* Lines 212-213: the write; the guard ends with the block and the thread ends.
WorkerWrite ==
    \E w \in workers :
        /\ lock.owner = "worker" /\ lock.job = w.job
        /\ w.job \in lock.ready
        /\ next_processed' = process_image(w.index, w.job)
        /\ workers' = workers \ {w}
        /\ lock' = [lock EXCEPT !.owner = "none", !.job = 0, !.ready = @ \ {w.job}]
        /\ UNCHANGED <<artworks, current_index, current_processed, last_change,
                       loading_next, now, pc, dispatched, writes, history,
                       loader, scaler, backdrop>>

\* The clock.
LockClock ==
    /\ now < MaxTime
    /\ now' = now + 1
    /\ UNCHANGED <<artworks, current_index, current_processed, next_processed,
                   last_change, loading_next, pc, workers, dispatched, writes,
                   history, parts>>

NextLock ==
    \/ LockEnter
    \/ LockLoadFirst
    \/ LockTexturesFirst
    \/ LockPoll
    \/ LockPollRead
    \/ LockTimer
    \/ LockCheck
    \/ LockTextures
    \/ LockClear
    \/ LockRender
    \/ WorkerProcessed
    \/ WorkerFailed
    \/ WorkerLock
    \/ WorkerWrite
    \/ LockClock

SpecLock == InitLock /\ [][NextLock]_vars

(***************************************************************************)
(* The controller once more, for the behaviours that never end.  The code  *)
(* reads the clock only as last_change.elapsed() >= slide_duration, so     *)
(* time is kept here as the time since last_change: last_change stays 0,   *)
(* now is reset where the code sets last_change to Instant::now(), and now *)
(* stops counting at slide_duration, from where on the test stays true.    *)
(* The history variables stand still, and every worker carries the job     *)
(* number 1: nothing in the code tells one job from another.               *)
(***************************************************************************)

\* load_next_in_background that sets the flag and spawns no thread.
prefetch_without_thread(loading) ==
    /\ loading_next' = (loading \/ N > 1)
    /\ UNCHANGED workers

\* load_next_in_background (lines 198-215), called when self.loading_next has
\* the value `loading`.
prefetch(loading) ==
    IF Spawns(loading)
    THEN /\ loading_next' = TRUE
         /\ workers' = workers \cup {[job |-> 1, index |-> next_index]}
    ELSE /\ loading_next' = loading
         /\ UNCHANGED workers

\* What the steps of update() and of the workers leave alone here.
still == <<artworks, last_change, dispatched, writes, history, parts>>

\* ArtSlideshowApp::new.
InitLive == Init

\* update(), lines 245-252.
LiveEmpty ==
    /\ pc = "idle"
    /\ N = 0
    /\ UNCHANGED vars

\* update(), lines 254-265.
LiveLoadFirst ==
    /\ pc = "idle"
    /\ N > 0
    /\ current_processed = None
    /\ current_processed' = process_image(current_index, 0)
    /\ prefetch(loading_next)
    /\ pc' = "poll"
    /\ UNCHANGED <<current_index, next_processed, now, still>>

\* update(), line 255 when current_processed is Some.
LiveSkipFirst ==
    /\ pc = "idle"
    /\ N > 0
    /\ current_processed # None
    /\ pc' = "poll"
    /\ UNCHANGED <<current_index, current_processed, next_processed, loading_next,
                   now, workers, still>>

\* update(), lines 267-273.
LivePoll ==
    /\ pc = "poll"
    /\ loading_next' = IF loading_next /\ next_processed # None THEN FALSE ELSE loading_next
    /\ pc' = "check"
    /\ UNCHANGED <<current_index, current_processed, next_processed, now, workers, still>>

\* update(), lines 275-289; last_change = Instant::now() restarts the count.
LiveCheck ==
    /\ pc = "check"
    /\ IF CanAdvance
       THEN /\ current_index' = (current_index + 1) % N
            /\ now' = 0
            /\ current_processed' = next_processed
            /\ pc' = "clear"
       ELSE /\ pc' = "idle"
            /\ UNCHANGED <<current_index, now, current_processed>>
    /\ UNCHANGED <<next_processed, loading_next, workers, still>>

\* update(), lines 291-299.
LiveClear ==
    /\ pc = "clear"
    /\ next_processed' = None
    /\ prefetch(FALSE)
    /\ pc' = "idle"
    /\ UNCHANGED <<current_index, current_processed, now, still>>

\* One step of the foreground thread.
LiveTick ==
    \/ LiveEmpty
    \/ LiveLoadFirst
    \/ LiveSkipFirst
    \/ LivePoll
    \/ LiveCheck
    \/ LiveClear

\* The spawned closure, lines 209-214, when process_image returns Some.
LiveWorkerStore ==
    \E w \in workers :
        /\ process_image(w.index, w.job) # None
        /\ next_processed' = process_image(w.index, w.job)
        /\ workers' = workers \ {w}
        /\ UNCHANGED <<current_index, current_processed, loading_next, now, pc, still>>

\* The spawned closure, lines 209-214, when process_image returns None.
LiveWorkerNone ==
    \E w \in workers :
        /\ process_image(w.index, w.job) = None
        /\ workers' = workers \ {w}
        /\ UNCHANGED <<current_index, current_processed, next_processed, loading_next,
                       now, pc, still>>

\* The clock, counting the time since last_change up to slide_duration.
LiveClock ==
    /\ now' = IF now < slide_duration THEN now + 1 ELSE now
    /\ UNCHANGED <<current_index, current_processed, next_processed, loading_next,
                   pc, workers, still>>

NextLive ==
    \/ LiveEmpty
    \/ LiveLoadFirst
    \/ LiveSkipFirst
    \/ LivePoll
    \/ LiveCheck
    \/ LiveClear
    \/ LiveWorkerStore
    \/ LiveWorkerNone
    \/ LiveClock

\* update() is called again and again (request_repaint_after, line 386), the
\* clock runs, and a spawned thread runs to its end.
SpecLive ==
    /\ InitLive
    /\ [][NextLive]_vars
    /\ WF_vars(LiveTick)
    /\ WF_vars(LiveClock)
    /\ WF_vars(LiveWorkerStore)
    /\ WF_vars(LiveWorkerNone)

(***************************************************************************)
(* Shorthands used by the properties below.  They spell the code's tests   *)
(* out again instead of using the operators of the model.                  *)
(***************************************************************************)

\* A step of update() (every one moves pc), as opposed to a worker or the clock.
TickStep == pc' # pc
TimerRanOut == now - last_change >= slide_duration
SlotFilled == next_processed # {}
Displaying == current_processed # {}
FirstDecodable == Len(artworks) >= 1 /\ artworks[1]

\* C1: at most one prefetch job has been dispatched and has not yet finished.
C1_AtMostOneOutstanding == Cardinality(workers) <= 1

\* C2: whenever current_processed holds a result, it is the processed form of
\* artworks[current_index].
C2_CurrentMatchesIndex ==
    \A p \in current_processed : p.index = current_index

\* C3: a tick that finds the image displayed, the timer elapsed and the slot
\* filled sets current_index to (current_index + 1) mod N, moves the slot's
\* result into current_processed and resets last_change to the time of the tick
\* (lines 279-285); it then leaves the slot empty and dispatches exactly one new
\* job, for the new (current_index + 1) mod N, with the loading flag true
\* (lines 291-298).
C3_AdvanceTick ==
    [][ /\ (TickStep /\ pc = "check" /\ Displaying /\ TimerRanOut /\ SlotFilled)
            => /\ current_index' = (current_index + 1) % Len(artworks)
               /\ current_processed' = next_processed
               /\ last_change' = now
               /\ pc' = "clear"
        /\ (TickStep /\ pc = "clear")
            => /\ next_processed' = {}
               /\ loading_next'
               /\ Len(artworks) >= 2
               /\ Len(dispatched') = Len(dispatched) + 1
               /\ dispatched'[Len(dispatched')] = (current_index + 1) % Len(artworks)
               /\ \E w \in workers' \ workers :
                     /\ workers' = workers \cup {w}
                     /\ w.index = (current_index + 1) % Len(artworks)
                     /\ w.job = Len(dispatched')
      ]_vars

\* C3's case: the second or a later tick of a run whose first image loaded has
\* advanced and has just dispatched the one new job.
C3_Witness ==
    /\ ev = "clear" /\ pc = "idle" /\ tick = 2 /\ FirstDecodable
    /\ current_index = 1 /\ current_processed = {[index |-> 1, job |-> 1]}
    /\ next_processed = {} /\ loading_next
    /\ workers = {[job |-> 2, index |-> 2 % Len(artworks)]}

\* C4: a tick that finds the image displayed, the timer elapsed and the slot
\* empty changes neither current_index, current_processed nor last_change; a
\* tick that finds the timer elapsed and the slot filled advances; and
\* current_index only ever changes by +1 mod N, on a tick step that sees both
\* an elapsed timer and a filled slot.
C4_GatedAdvance ==
    [][ /\ (TickStep /\ pc = "check" /\ Displaying /\ TimerRanOut /\ ~SlotFilled)
            => UNCHANGED <<current_index, current_processed, last_change>>
        /\ (TickStep /\ pc = "check" /\ TimerRanOut /\ SlotFilled)
            => current_index' = (current_index + 1) % Len(artworks)
        /\ (current_index' # current_index)
            => /\ TickStep /\ pc = "check" /\ TimerRanOut /\ SlotFilled
               /\ current_index' = (current_index + 1) % Len(artworks)
      ]_vars

\* C4's case: the image was held past its time by at least one tick that found
\* the slot empty, and a later tick, finding it filled, has advanced.
C4_Witness ==
    /\ ev = "advance_late" /\ FirstDecodable
    /\ current_index = 1 /\ current_processed = {[index |-> 1, job |-> 1]}
    /\ last_change = now /\ now > slide_duration

\* C5: a tick that finds the image displayed and the timer not yet elapsed
\* leaves current_index, current_processed, last_change and the handoff slot as
\* they are, also when the slot is filled.  (The steps of update() before the
\* timer check never touch them once an image is displayed.)
C5_TimerNotElapsed ==
    [][ /\ (TickStep /\ pc \in {"idle", "poll"} /\ Displaying)
            => UNCHANGED <<current_index, current_processed, last_change, next_processed>>
        /\ (TickStep /\ pc = "check" /\ Displaying /\ ~TimerRanOut)
            => /\ UNCHANGED <<current_index, current_processed, last_change, next_processed>>
               /\ pc' = "idle"
      ]_vars

\* C5's case: a tick has just found the timer not elapsed while the prefetched
\* result of artworks[1] was already in the slot, and has kept it there.
C5_Witness ==
    /\ ev = "wait" /\ pc = "idle" /\ tick = 2 /\ FirstDecodable
    /\ current_index = 0 /\ current_processed = {[index |-> 0, job |-> 0]}
    /\ next_processed = {[index |-> 1, job |-> 1]}
    /\ ~loading_next

C7_BootstrapResetsTimer ==
    [][ (TickStep /\ pc = "idle" /\ current_processed = {} /\ current_processed' # {})
            => last_change' = now
      ]_vars

\* C8: load_next_in_background called with the loading flag true or with at most
\* one artwork (the call of line 264; the call of line 298 always follows
\* loading_next = false with N >= 2) spawns no worker, keeps the flag, and
\* leaves the slot, current_index and current_processed (just assigned by line
\* 257) as they were when it was called.
C8_RequestNoOp ==
    [][ (TickStep /\ pc = "idle" /\ current_processed = {}
            /\ (loading_next \/ Len(artworks) <= 1))
            => /\ workers' = workers
               /\ dispatched' = dispatched
               /\ loading_next' = loading_next
               /\ next_processed' = next_processed
               /\ current_index' = current_index
               /\ current_processed' = IF artworks[current_index + 1]
                                       THEN {[index |-> current_index, job |-> 0]}
                                       ELSE {}
      ]_vars

\* C8's case: the second tick has again found nothing loaded and has called
\* load_next_in_background while the job of the first tick was in flight: there
\* is still one dispatch only.
C8_Witness ==
    /\ ev = "load_first" /\ pc = "poll" /\ tick = 2 /\ Len(artworks) >= 2
    /\ loading_next /\ Len(dispatched) = 1
    /\ workers = {[job |-> 1, index |-> 1]}

\* C9: with exactly one artwork no worker is ever spawned, the loading flag
\* stays false, the slot stays empty and current_index stays 0.
C9_SingleArtwork ==
    Len(artworks) = 1
        => /\ workers = {}
           /\ dispatched = <<>>
           /\ ~loading_next
           /\ next_processed = {}
           /\ current_index = 0

\* C9's case: one artwork, ticks have run and one of them found the timer elapsed.
C9_Witness ==
    /\ Len(artworks) = 1 /\ tick = 2 /\ ev = "hold" /\ pc = "idle"
    /\ now - last_change >= slide_duration

\* C10: between two dispatches the slot is written at most once, a worker never
\* overwrites a result that is still in the slot, and update() never clears a
\* result other than the one it has promoted to current_processed.
C10_SlotHandoff ==
    [][ /\ writes' <= 1
        /\ (next_processed' # next_processed /\ next_processed' # {})
            => next_processed = {}
        /\ (TickStep /\ pc = "clear")
            => next_processed \subseteq current_processed
      ]_vars

\* C11: at the end of every tick the loading flag is true exactly when some
\* dispatched job's own result has not yet been seen in the slot by update(),
\* and the poll clears the flag only on the result of the job in flight (the
\* last one dispatched), never on a result an earlier job left in the slot.
C11_LoadingFlagExact ==
    [][ /\ (pc = "idle")
            => (loading_next <=> (\E j \in 1..Len(dispatched) : j \notin observed))
        /\ (TickStep /\ pc = "poll" /\ loading_next /\ ~loading_next')
            => (\A p \in next_processed : p.job = Len(dispatched))
      ]_vars

\* The current image is loaded, the job last dispatched was for the artwork
\* after it, that artwork cannot be decoded and the job has finished.
PrefetchFailed ==
    /\ current_processed # {}
    /\ Len(artworks) >= 2
    /\ Len(dispatched) >= 1
    /\ dispatched[Len(dispatched)] = (current_index + 1) % Len(artworks)
    /\ ~artworks[((current_index + 1) % Len(artworks)) + 1]
    /\ \A w \in workers : w.job # Len(dispatched)

\* C12: once the current image is loaded and the job for the undecodable next
\* artwork has finished, the slot is empty and the loading flag true, and no
\* step changes that, spawns a worker, or changes current_index or
\* current_processed (PrefetchFailed then holds again after the step, so the
\* stall lasts for ever).
C12_StableStall ==
    [][ PrefetchFailed
            => /\ next_processed = {} /\ loading_next
               /\ next_processed' = {} /\ loading_next'
               /\ UNCHANGED <<current_index, current_processed, dispatched>>
               /\ workers' \subseteq workers
      ]_vars

\* C13: the synchronous pipeline (line 257) runs in the first tick only, and
\* load_next_in_background called from the bootstrap block dispatches at most
\* the first job: nothing is attempted a second time for the same current
\* index or the same prefetch target.
C13_NoRetry ==
    [][ /\ (TickStep /\ pc = "idle" /\ Len(artworks) > 0 /\ current_processed = {})
            => tick = 0
        /\ (TickStep /\ pc = "idle" /\ Len(dispatched') > Len(dispatched))
            => Len(dispatched) = 0
        /\ (Len(dispatched') > Len(dispatched) /\ Len(dispatched) > 0)
            => dispatched'[Len(dispatched')] # dispatched[Len(dispatched)]
      ]_vars

\* C20: once current_processed holds a result it never becomes empty again, the
\* bootstrap block (synchronous pipeline and its dispatch) is never entered
\* again, and every later change of current_processed takes the finished result
\* of a worker out of the handoff slot.
C20_NeverEmptyAgain ==
    [][ current_processed # {}
            => /\ current_processed' # {}
               /\ (TickStep /\ pc = "idle")
                    => UNCHANGED <<current_processed, dispatched, workers, loading_next>>
               /\ (current_processed' # current_processed)
                    => /\ TickStep /\ pc = "check"
                       /\ next_processed # {}
                       /\ current_processed' = next_processed
                       /\ \A p \in next_processed :
                             /\ p.job \in 1..Len(dispatched)
                             /\ \A w \in workers : w.job # p.job
      ]_vars

\* C20's case: the image loaded by the first tick has been replaced, on a later
\* tick, by the result job 1 had stored in the slot.
C20_Witness ==
    /\ ev \in {"advance", "advance_late"} /\ pc = "clear" /\ FirstDecodable
    /\ current_processed = {[index |-> 1, job |-> 1]}
    /\ next_processed = current_processed
    /\ tick = 2

\* What the properties of the metadata loader call a well-formed sidecar: a
\* JSON object whose title, artist and year are strings.
SidecarParses ==
    /\ loader.sidecar.kind = "object"
    /\ \A k \in {"title", "artist", "year"} :
          /\ k \in DOMAIN loader.sidecar.fields
          /\ loader.sidecar.fields[k].type = "string"
SidecarRecord ==
    [title |-> loader.sidecar.fields["title"].text,
     artist |-> loader.sidecar.fields["artist"].text,
     year |-> loader.sidecar.fields["year"].text]
\* The file name without ".", extension: an image's name ends in these two tokens.
NameWithoutExtension == SubSeq(loader.name, 1, Len(loader.name) - 2)

\* C15 as stated: every image gets metadata; a sidecar that parses is returned
\* verbatim, and in both other cases (missing, or present but unreadable or
\* unparseable) the result is {file name without extension, Unknown, Unknown}.
C15_OneFallback ==
    loader.stage = "pushed"
        => /\ DOMAIN loader.metadata = {"title", "artist", "year"}
           /\ loader.metadata = IF SidecarParses THEN SidecarRecord
                                ELSE [title |-> NameWithoutExtension,
                                      artist |-> <<"Unknown">>, year |-> <<"Unknown">>]

\* C15 as amended: every image gets metadata; a sidecar that parses is returned
\* verbatim; a missing sidecar gives {file name without extension, Unknown,
\* Unknown}; a sidecar that is present but unreadable or unparseable gives
\* {Unknown, Unknown, Unknown}.
C15_TwoFallbacks ==
    loader.stage = "pushed"
        => /\ DOMAIN loader.metadata = {"title", "artist", "year"}
           /\ loader.metadata =
                 IF SidecarParses THEN SidecarRecord
                 ELSE IF loader.sidecar.kind = "missing"
                      THEN [title |-> NameWithoutExtension,
                            artist |-> <<"Unknown">>, year |-> <<"Unknown">>]
                      ELSE [title |-> <<"Unknown">>,
                            artist |-> <<"Unknown">>, year |-> <<"Unknown">>]

\* C15's case: the image iris.jpg, whose sidecar lacks the year, has been given
\* the all-Unknown record.
C15_Witness ==
    /\ loader.stage = "pushed"
    /\ loader.name = <<"iris", ".", "jpg">>
    /\ loader.sidecar.kind = "object"
    /\ DOMAIN loader.sidecar.fields = {"title", "artist"}
    /\ loader.metadata.title = <<"Unknown">>

\* C16: the main image of a source of width w >= 1 and height h >= 1 has
\* max(width, height) <= 2048, and has exactly the source's dimensions whenever
\* max(w, h) <= 2048.
C16_ScaleBound ==
    (scaler.stage = "resized")
        => /\ scaler.main_width <= 2048
           /\ scaler.main_height <= 2048
           /\ (scaler.img_width <= 2048 /\ scaler.img_height <= 2048)
                => /\ scaler.main_width = scaler.img_width
                   /\ scaler.main_height = scaler.img_height

\* C16 applies: a source larger than 2048 on both sides has been scaled down, and
\* rounding left its longer side one short of 2048.
C16_Witness ==
    /\ scaler.stage = "resized"
    /\ scaler.img_width = 3000 /\ scaler.img_height = 2999
    /\ scaler.main_width = 2048 /\ scaler.main_height = 2047

BackdropUniform ==
    \A p, q \in 1..Len(backdrop.source) : backdrop.source[p] = backdrop.source[q]

\* C17: for every image size and every radius >= 0, fast_box_blur applied any
\* number of times to a buffer of one colour returns that colour in every pixel.
C17_UniformStaysUniform ==
    (BackdropUniform /\ backdrop.passes >= 1)
        => (backdrop.stage # "panic" /\ backdrop.blurred = backdrop.source)

\* C17 as it holds: the same, for every radius with 255 * (2 * radius + 1) < 2^32,
\* that is radius <= 8421504.
C17_UniformStaysUniformNoOverflow ==
    (/\ BackdropUniform
     /\ backdrop.passes >= 1
     /\ backdrop.radius <= 8421504)
        => (backdrop.stage # "panic" /\ backdrop.blurred = backdrop.source)

\* C17 applies: a 2 x 2 buffer of one colour, narrower than the radius 10, has
\* gone through three passes and has its colour in every pixel.
C17_Witness ==
    /\ BackdropUniform
    /\ backdrop.width = 2 /\ backdrop.height = 2 /\ backdrop.radius = 10
    /\ backdrop.passes = 3 /\ backdrop.stage = "rgba"
    /\ \A p \in 1..Len(backdrop.px) : backdrop.px[p] = <<210, 39, 124, 45>>

\* C18: the darken step maps every R, G and B value c to the truncation of
\* 0.6 * c, which is at most c, and leaves alpha unchanged; the blur passes
\* before it leave alpha unchanged too.
C18_Darken ==
    /\ (backdrop.stage = "darkened")
        => \A p \in 1..Len(backdrop.px) :
              /\ \A k \in 1..3 : /\ backdrop.px[p][k] = (3 * backdrop.blurred[p][k]) \div 5
                                 /\ backdrop.px[p][k] <= backdrop.blurred[p][k]
              /\ backdrop.px[p][4] = backdrop.blurred[p][4]
    /\ \A p \in 1..Len(backdrop.px) : backdrop.px[p][4] = backdrop.source[p][4]

\* C18 applies: a blurred pixel <<253, 82, 167, 2>> has been darkened to
\* <<151, 49, 100, 2>>.
C18_Witness ==
    /\ backdrop.stage = "darkened"
    /\ \E p \in 1..Len(backdrop.px) :
          /\ backdrop.blurred[p] = <<253, 82, 167, 2>>
          /\ backdrop.px[p] = <<151, 49, 100, 2>>

\* C14: a worker that is running process_image does not hold the mutex of the
\* slot (it locks only after process_image has returned, for the one write), and
\* the foreground thread does not hold it while it runs the synchronous
\* process_image, builds textures or renders.
C14_LockNotHeldAcrossWork ==
    /\ \A w \in workers :
          (lock.owner = "worker" /\ lock.job = w.job) => w.job \in lock.ready
    /\ (pc \in {"process_image", "create_textures_first", "create_textures", "render"})
          => lock.owner # "update"

\* C14 applies: the foreground thread is building the textures of the image it
\* has just advanced to while a worker holds the mutex for its write.
C14_Witness ==
    /\ pc = "create_textures"
    /\ lock.owner = "worker"
    /\ \E w \in workers : w.job = lock.job /\ w.job \in lock.ready

AllDecodable == Len(artworks) >= 2 /\ \A i \in 1..Len(artworks) : artworks[i]

\* C19: with at least two artworks, all decodable, and with ticks, the clock and
\* the workers going on, every index is the current one again and again, and
\* current_index only ever moves to (current_index + 1) mod N.
C19_EveryIndexAgainAndAgain ==
    /\ \A i \in 0..(MaxN - 1) :
          (AllDecodable /\ i < Len(artworks)) => []<>(current_index = i)
    /\ [][ (AllDecodable /\ current_index' # current_index)
              => current_index' = (current_index + 1) % Len(artworks) ]_vars

\* C19 applies: with three decodable artworks the slideshow has gone round and
\* shows index 0 again, this time from a worker's result.
C19_Witness ==
    /\ AllDecodable /\ Len(artworks) = 3
    /\ current_index = 0
    /\ current_processed = {[index |-> 0, job |-> 1]}

====
